---- MODULE Spec2Model ----
(***************************************************************************)
(* Model of qt/aqt/theme.py: the ThemeManager object (mode flag, icon      *)
(* cache), the colour table it reads, the platform flags it consults and   *)
(* the toolkit application object it styles.                               *)
(*                                                                         *)
(* Every method is one action.  The variables op / ret / calls record the  *)
(* most recent method call, its outcome (a returned value or a raised      *)
(* exception) and the calls it made on its collaborators, in order.        *)
(***************************************************************************)
EXTENDS Integers, Sequences, FiniteSets, TLC

VARIABLES
    night_mode,     \* ThemeManager.night_mode
    _icon_cache,    \* ThemeManager._icon_cache: dict path -> icon handle
    nextId,         \* identity of the next QIcon object the toolkit creates
    colors,         \* aqt.colors.colors: dict "day-<k>" / "night-<k>" -> value
    isWin,          \* aqt.isWin
    isMac,          \* anki.utils.isMac
    release,        \* platform.release()
    appStyle,       \* the application's widget style (app.setStyle)
    appPalette,     \* the application's palette (app.setPalette)
    appStyleSheet,  \* the application's stylesheet (app.setStyleSheet)
    op,             \* the last method called and its argument
    ret,            \* its outcome
    calls           \* the collaborator calls it made, in order

vars == <<night_mode, _icon_cache, nextId, colors, isWin, isMac, release,
          appStyle, appPalette, appStyleSheet, op, ret, calls>>

manager == <<night_mode, _icon_cache, nextId>>
env     == <<colors, isWin, isMac, release>>
app     == <<appStyle, appPalette, appStyleSheet>>

----------------------------------------------------------------------------
(* Bounds of the exploration *)

MaxPaths   == 2    \* icon resource paths a caller may ask for
MaxHandles == 6    \* QIcon objects the toolkit creates in one run
MaxCardOrd == 10   \* card ordinals 0..MaxCardOrd
MaxMissing == 1    \* keys that may be absent from the colour table

----------------------------------------------------------------------------
(* Python values *)

None == <<>>
Some(v) == <<v>>

Return(v) == [kind |-> "return", val |-> v]
Raise(args) == [kind |-> "raise", val |-> args]

Call(fn, arg) == [fn |-> fn, arg |-> arg]

\* dict.get(key): the stored value, or None when the key is absent
DictGet(d, k) == IF k \in DOMAIN d THEN Some(d[k]) ELSE None

Digit(d) ==
    CASE d = 0 -> "0" [] d = 1 -> "1" [] d = 2 -> "2" [] d = 3 -> "3"
      [] d = 4 -> "4" [] d = 5 -> "5" [] d = 6 -> "6" [] d = 7 -> "7"
      [] d = 8 -> "8" [] d = 9 -> "9"

\* str(int) as used by the f-string: decimal digits, "-" for negatives
RECURSIVE IntStr(_)
IntStr(n) ==
    IF n < 0 THEN "-" \o IntStr(-n)
    ELSE IF n < 10 THEN Digit(n)
    ELSE IntStr(n \div 10) \o Digit(n % 10)

\* sep.join(seq)
RECURSIVE Join(_, _)
Join(sep, seq) ==
    IF seq = <<>> THEN ""
    ELSE IF Len(seq) = 1 THEN seq[1]
    ELSE seq[1] \o sep \o Join(sep, Tail(seq))

----------------------------------------------------------------------------
(* The colour table *)

\* the semantic names the module queries, and one that no table defines
PaletteKeys == <<"text-fg", "highlight-bg", "highlight-fg", "window-bg",
                 "frame-bg", "disabled", "link">>

Names == {PaletteKeys[i] : i \in 1..Len(PaletteKeys)} \cup {"no-such-color"}

TableKeys == {"day-" \o PaletteKeys[i] : i \in 1..Len(PaletteKeys)}
             \cup {"night-" \o PaletteKeys[i] : i \in 1..Len(PaletteKeys)}

\* a table in the style of _vars.scss; two names have the same value in
\* both modes, the others differ between the modes
FullTable ==
    [k \in TableKeys |->
        CASE k = "day-text-fg"        -> "black"
          [] k = "night-text-fg"      -> "white"
          [] k = "day-highlight-bg"   -> "#77ccff"
          [] k = "night-highlight-bg" -> "#77ccff"
          [] k = "day-highlight-fg"   -> "black"
          [] k = "night-highlight-fg" -> "white"
          [] k = "day-window-bg"      -> "#ececec"
          [] k = "night-window-bg"    -> "#2f2f31"
          [] k = "day-frame-bg"       -> "white"
          [] k = "night-frame-bg"     -> "#3a3a3a"
          [] k = "day-disabled"       -> "#777"
          [] k = "night-disabled"     -> "#777"
          [] k = "day-link"           -> "#00a"
          [] k = "night-link"         -> "#77ccff"]

Restrict(f, S) == [x \in S |-> f[x]]

\* the tables the module may be run against: the full one, and the full one
\* with up to MaxMissing keys left out
ColorTables ==
    {Restrict(FullTable, TableKeys \ gone) :
        gone \in {g \in SUBSET TableKeys : Cardinality(g) <= MaxMissing}}

----------------------------------------------------------------------------
(* Toolkit values *)

\* QColor(name): a colour with full opacity
QColor(name) == [name |-> name, alpha |-> 255]

\* QColor.setAlpha
setAlpha(c, a) == [c EXCEPT !.alpha = a]

\* Qt.red
QtRed == QColor("#ff0000")

ColorGroups == {"Active", "Inactive", "Disabled"}

ColorRoles == {"WindowText", "ToolTipText", "Text", "ButtonText",
               "HighlightedText", "Highlight", "Window", "AlternateBase",
               "Button", "Base", "ToolTipBase", "Link", "BrightText"}

\* the colour of a role the program has not set
Unset == [name |-> "toolkit-default", alpha |-> 255]

\* QPalette()
QPalette == [gr \in ColorGroups \X ColorRoles |-> Unset]

\* QPalette.setColor(role, color): the role in every colour group
setColor(pal, role, c) ==
    [gr \in DOMAIN pal |-> IF gr[2] = role THEN c ELSE pal[gr]]

\* QPalette.setColor(group, role, color) ignoring the group
setColorIn_every_group(pal, group, role, c) ==
    [gr \in DOMAIN pal |-> IF gr[2] = role THEN c ELSE pal[gr]]

\* QPalette.setColor(group, role, color): the role in one colour group
setColorIn(pal, group, role, c) ==
    [gr \in DOMAIN pal |-> IF gr = <<group, role>> THEN c ELSE pal[gr]]

\* ThemeManager._icon_size
_icon_size == 128

\* a QIcon object: its identity, the resource it was loaded from and whether
\* its pixels were inverted
QIcon(id, path, inverted) == [id |-> id, path |-> path, inverted |-> inverted]

\* the resource paths callers ask for
Paths == {"icons:" \o IntStr(i) \o ".svg" : i \in 1..MaxPaths}

\* the filters add-ons may have registered on the style_did_init hook
Filters == {"none", "append", "replace"}

\* gui_hooks.style_did_init(buf) with the given filter registered
style_did_init(filter, buf) ==
    CASE filter = "none"    -> buf
      [] filter = "append"  -> buf \o "QWidget { font-size: 12px; }"
      [] filter = "replace" -> "QWidget { color: green; }"

----------------------------------------------------------------------------
(* ThemeManager *)

\* str_color(key) with the two prefixes exchanged
str_color_other_prefix(key) ==
    LET prefix == IF night_mode THEN "day-" ELSE "night-"
        c == DictGet(colors, prefix \o key)
    IN  IF c = None
        THEN Raise(<<"no such color:", key>>)
        ELSE Return(c[1])

\* str_color(key) falling back to the other mode's colour instead of raising
str_color_fallback(key) ==
    LET prefix == IF night_mode THEN "night-" ELSE "day-"
        other == IF night_mode THEN "day-" ELSE "night-"
        c == DictGet(colors, prefix \o key)
        d == DictGet(colors, other \o key)
    IN  IF c = None
        THEN IF d = None
             THEN Raise(<<"no such color:", key>>)
             ELSE Return(d[1])
        ELSE Return(c[1])

\* str_color(key)
str_color(key) ==
    LET prefix == IF night_mode THEN "night-" ELSE "day-"
        c == DictGet(colors, prefix \o key)
    IN  IF c = None
        THEN Raise(<<"no such color:", key>>)
        ELSE Return(c[1])

\* qcolor(key)
qcolor(key) ==
    LET s == str_color(key)
    IN  IF s.kind = "raise" THEN s ELSE Return(QColor(s.val))

\* the table read that str_color(key) makes
ColorRead(key) ==
    Call("colors.get", (IF night_mode THEN "night-" ELSE "day-") \o key)

\* body_class() with the night-mode tag appended before the platform tag
body_class_night_first ==
    LET c0 == <<>>
        c1 == IF night_mode THEN Append(c0, "nightMode") ELSE c0
        c2 == IF isWin THEN Append(c1, "isWin")
              ELSE IF isMac THEN Append(c1, "isMac")
              ELSE Append(c1, "isLin")
    IN  Join(" ", c2)

\* body_class()
body_class ==
    LET c0 == <<>>
        c1 == IF isWin THEN Append(c0, "isWin")
              ELSE IF isMac THEN Append(c0, "isMac")
              ELSE Append(c0, "isLin")
        c2 == IF night_mode THEN Append(c1, "nightMode") ELSE c1
    IN  Join(" ", c2)

\* body_classes_for_card_ord(card_ord) numbering the cards from zero
body_classes_for_card_ord_zero_based(card_ord) ==
    "card card" \o IntStr(card_ord) \o " " \o body_class

\* body_classes_for_card_ord(card_ord)
body_classes_for_card_ord(card_ord) ==
    "card card" \o IntStr(card_ord + 1) \o " " \o body_class

----------------------------------------------------------------------------
\* sys.platform decides both flags, so at most one of them is set
Platforms == {[isWin |-> TRUE,  isMac |-> FALSE],
              [isWin |-> FALSE, isMac |-> TRUE],
              [isWin |-> FALSE, isMac |-> FALSE]}

\* values of platform.release()
Releases == {"10", "8.1"}

(* Initial state: the module has been imported, theme_manager created *)

Init ==
    /\ night_mode = TRUE
    /\ _icon_cache = <<>>
    /\ nextId = 1
    /\ colors \in ColorTables
    /\ \E plat \in Platforms : isWin = plat.isWin /\ isMac = plat.isMac
    /\ release \in Releases
    /\ appStyle = "toolkit-default"
    /\ appPalette = QPalette
    /\ appStyleSheet = ""
    /\ op = [name |-> "ThemeManager", arg |-> None]
    /\ ret = Return(None)
    /\ calls = <<>>

----------------------------------------------------------------------------
(* Operations *)

\* an assignment of night_mode that also empties the icon cache
SetNightMode_clears_cache(b) ==
    /\ night_mode' = b
    /\ _icon_cache' = IF b = night_mode THEN _icon_cache ELSE <<>>
    /\ op' = [name |-> "set_night_mode", arg |-> b]
    /\ ret' = Return(None)
    /\ calls' = <<>>
    /\ UNCHANGED <<nextId, env, app>>

\* a caller assigns theme_manager.night_mode
SetNightMode(b) ==
    /\ night_mode' = b
    /\ op' = [name |-> "set_night_mode", arg |-> b]
    /\ ret' = Return(None)
    /\ calls' = <<>>
    /\ UNCHANGED <<_icon_cache, nextId, env, app>>

StrColor(key) ==
    /\ op' = [name |-> "str_color", arg |-> key]
    /\ ret' = str_color(key)
    /\ calls' = <<ColorRead(key)>>
    /\ UNCHANGED <<manager, env, app>>

QColorOp(key) ==
    /\ op' = [name |-> "qcolor", arg |-> key]
    /\ ret' = qcolor(key)
    /\ calls' = <<ColorRead(key)>>
    /\ UNCHANGED <<manager, env, app>>

BodyClass ==
    /\ op' = [name |-> "body_class", arg |-> None]
    /\ ret' = Return(body_class)
    /\ calls' = <<>>
    /\ UNCHANGED <<manager, env, app>>

BodyClassesForCardOrd(n) ==
    /\ op' = [name |-> "body_classes_for_card_ord", arg |-> n]
    /\ ret' = Return(body_classes_for_card_ord(n))
    /\ calls' = <<>>
    /\ UNCHANGED <<manager, env, app>>

\* dict.setdefault(key, value): the dict afterwards
SetDefault(d, k, v) == IF k \in DOMAIN d THEN d ELSE d @@ (k :> v)

\* a cache miss: load the icon, invert it in night mode, store it
IconLoad(path) ==
    LET loaded == QIcon(nextId, path, FALSE)
        final  == IF night_mode THEN QIcon(nextId + 1, path, TRUE) ELSE loaded
        cache  == SetDefault(_icon_cache, path, final)
    IN  [out |-> Return(cache[path]),
         calls |-> <<Call("QIcon", path)>> \o
                   (IF night_mode
                    THEN <<Call("pixmap", IntStr(_icon_size)),
                           Call("invertPixels", path),
                           Call("QIcon", "QPixmap")>>
                    ELSE <<>>),
         cache |-> cache,
         nextId |-> IF night_mode THEN nextId + 2 ELSE nextId + 1]

\* icon_from_resources(path) without the early return on a cached icon
IconRun_uncached(path) == IconLoad(path)

\* icon_from_resources(path): its outcome, the toolkit calls it makes, the
\* cache and the next icon identity afterwards
\* ("if icon:" tests for None: a QIcon object defines neither __bool__ nor
\* __len__, so every cached icon is true)
IconRun(path) ==
    LET icon == DictGet(_icon_cache, path)
    IN  IF icon # None
        THEN [out |-> Return(icon[1]), calls |-> <<>>,
              cache |-> _icon_cache, nextId |-> nextId]
        ELSE IconLoad(path)

\* icon_from_resources(path)
IconFromResources(path) ==
    LET r == IconRun(path)
    IN  /\ r.nextId - 1 <= MaxHandles
        /\ op' = [name |-> "icon_from_resources", arg |-> path]
        /\ ret' = r.out
        /\ calls' = r.calls
        /\ _icon_cache' = r.cache
        /\ nextId' = r.nextId
        /\ UNCHANGED <<night_mode, env, app>>

----------------------------------------------------------------------------
(* Stylesheet and palette *)

MenuBarFix ==
    "\nQMenuBar {\n  border-bottom: 1px solid #aaa;\n  background: white;\n}\n"

TreeWidgetFix ==
    "\nQTreeWidget {\n  background: #eee;\n}\n            "

NightFix ==
    "\nQToolTip {\n  border: 0;\n}\n\nQGroupBox {\n  padding-top: 0px;\n}              \n            "

\* the buffer _apply_style has built when it reaches the hook
StyleBuf ==
    LET b0 == ""
        b1 == IF isWin /\ release = "10" /\ ~night_mode
              THEN (b0 \o MenuBarFix) \o TreeWidgetFix
              ELSE b0
        b2 == IF night_mode THEN b1 \o NightFix ELSE b1
    IN  b2

\* _apply_style(app) installing its own buffer, not what the hook returned
StyleRun_ignores_hook(filter) ==
    LET buf == StyleBuf
    IN  [calls |-> <<Call("style_did_init", buf), Call("setStyleSheet", buf)>>,
         sheet |-> buf]

\* _apply_style(app) with the given filter on the hook: the collaborator
\* calls it makes and the stylesheet it installs
StyleRun(filter) ==
    LET buf == StyleBuf
        out == style_did_init(filter, buf)
    IN  [calls |-> <<Call("style_did_init", buf), Call("setStyleSheet", out)>>,
         sheet |-> out]

\* the palette keys whose lookup raises, in the order _apply_palette asks
MissingKeys == SelectSeq(PaletteKeys, LAMBDA k : qcolor(k).kind = "raise")

\* the table reads _apply_palette makes before it finishes or raises
PaletteReads ==
    LET n == IF MissingKeys = <<>> THEN Len(PaletteKeys)
             ELSE CHOOSE i \in 1..Len(PaletteKeys) :
                      PaletteKeys[i] = Head(MissingKeys)
    IN  [i \in 1..n |-> ColorRead(PaletteKeys[i])]

\* the palette _apply_palette builds when every lookup succeeds
NightPalette ==
    LET text_fg == qcolor("text-fg").val
        p1 == setColor(QPalette, "WindowText", text_fg)
        p2 == setColor(p1, "ToolTipText", text_fg)
        p3 == setColor(p2, "Text", text_fg)
        p4 == setColor(p3, "ButtonText", text_fg)
        hlbg == setAlpha(qcolor("highlight-bg").val, 64)
        p5 == setColor(p4, "HighlightedText", qcolor("highlight-fg").val)
        p6 == setColor(p5, "Highlight", hlbg)
        window_bg == qcolor("window-bg").val
        p7 == setColor(p6, "Window", window_bg)
        p8 == setColor(p7, "AlternateBase", window_bg)
        p9 == setColor(p8, "Button", window_bg)
        frame_bg == qcolor("frame-bg").val
        p10 == setColor(p9, "Base", frame_bg)
        p11 == setColor(p10, "ToolTipBase", frame_bg)
        disabled_color == qcolor("disabled").val
        p12 == setColorIn(p11, "Disabled", "Text", disabled_color)
        p13 == setColorIn(p12, "Disabled", "ButtonText", disabled_color)
        p14 == setColorIn(p13, "Disabled", "HighlightedText", disabled_color)
        p15 == setColor(p14, "Link", qcolor("link").val)
        p16 == setColor(p15, "BrightText", QtRed)
    IN  p16

\* _apply_palette(app) past its mode test: set the fusion style, look the
\* colours up, install the palette
PaletteApply ==
    IF MissingKeys # <<>>
    THEN [out |-> qcolor(Head(MissingKeys)),
          calls |-> <<Call("setStyle", "fusion")>> \o PaletteReads,
          style |-> "fusion", palette |-> appPalette]
    ELSE [out |-> Return(None),
          calls |-> (<<Call("setStyle", "fusion")>> \o PaletteReads)
                    \o <<Call("setPalette", "palette")>>,
          style |-> "fusion", palette |-> NightPalette]

\* _apply_palette(app) without the mode test
PaletteRun_always == PaletteApply

\* _apply_palette(app): its outcome, the collaborator calls it makes and the
\* style and palette of the application afterwards
PaletteRun ==
    IF ~night_mode
    THEN [out |-> Return(None), calls |-> <<>>,
          style |-> appStyle, palette |-> appPalette]
    ELSE PaletteApply

\* _apply_palette(app)
ApplyPaletteOnly ==
    LET p == PaletteRun
    IN  /\ op' = [name |-> "_apply_palette", arg |-> None]
        /\ ret' = p.out
        /\ calls' = p.calls
        /\ appStyle' = p.style
        /\ appPalette' = p.palette
        /\ UNCHANGED <<manager, env, appStyleSheet>>

\* _apply_style(app)
ApplyStyleOnly(filter) ==
    LET s == StyleRun(filter)
    IN  /\ op' = [name |-> "_apply_style", arg |-> filter]
        /\ ret' = Return(None)
        /\ calls' = s.calls
        /\ appStyleSheet' = s.sheet
        /\ UNCHANGED <<manager, env, appStyle, appPalette>>

\* apply_style(app): _apply_palette, then _apply_style unless that raised
ApplyStyle(filter) ==
    LET p == PaletteRun
        s == StyleRun(filter)
    IN  /\ op' = [name |-> "apply_style", arg |-> filter]
        /\ appStyle' = p.style
        /\ appPalette' = p.palette
        /\ IF p.out.kind = "raise"
           THEN /\ ret' = p.out
                /\ calls' = p.calls
                /\ UNCHANGED appStyleSheet
           ELSE /\ ret' = Return(None)
                /\ calls' = p.calls \o s.calls
                /\ appStyleSheet' = s.sheet
        /\ UNCHANGED <<manager, env>>

----------------------------------------------------------------------------
(* Specifications *)

FlipMode == \E b \in BOOLEAN : SetNightMode(b)

LookupColor == \E key \in Names : StrColor(key) \/ QColorOp(key)

LookupIcon == \E path \in Paths : IconFromResources(path)

CardClasses == \E n \in 0..MaxCardOrd : BodyClassesForCardOrd(n)

Restyle == \E filter \in Filters : ApplyStyleOnly(filter) \/ ApplyStyle(filter)

\* the colour lookups
NextColor == FlipMode \/ LookupColor
SpecColor == Init /\ [][NextColor]_vars

\* the icon cache
NextIcon == FlipMode \/ LookupIcon
SpecIcon == Init /\ [][NextIcon]_vars

\* the body class strings
NextBody == FlipMode \/ BodyClass \/ CardClasses
SpecBody == Init /\ [][NextBody]_vars

\* styling the application
NextStyle == FlipMode \/ ApplyPaletteOnly \/ Restyle
SpecStyle == Init /\ [][NextStyle]_vars

\* the whole module
Next ==
    \/ FlipMode
    \/ LookupColor
    \/ LookupIcon
    \/ BodyClass
    \/ CardClasses
    \/ ApplyPaletteOnly
    \/ Restyle
Spec == Init /\ [][Next]_vars

----------------------------------------------------------------------------
(* Properties *)

ModePrefix == IF night_mode THEN "night-" ELSE "day-"
OtherPrefix == IF night_mode THEN "day-" ELSE "night-"

\* C1: when the table holds prefix+k for the current mode, str_color(k)
\* returns exactly the value stored under prefix+k; and when the other
\* mode's prefix stores a different value, that value is not what comes back.
C1_StrColorReturnsPrefixedValue ==
    (op.name = "str_color" /\ (ModePrefix \o op.arg) \in DOMAIN colors) =>
        /\ ret.kind = "return"
        /\ ret.val = colors[ModePrefix \o op.arg]
        /\ ((OtherPrefix \o op.arg) \in DOMAIN colors
              /\ colors[OtherPrefix \o op.arg] # colors[ModePrefix \o op.arg])
           => ret.val # colors[OtherPrefix \o op.arg]

\* C1 witness: a day-mode lookup of a name that both modes define, with
\* different values, has returned
C1_Witness ==
    /\ op.name = "str_color"
    /\ op.arg = "text-fg"
    /\ ~night_mode
    /\ ret.kind = "return"
    /\ "night-text-fg" \in DOMAIN colors
    /\ "day-text-fg" \in DOMAIN colors

\* C2: a call of str_color(k) or qcolor(k) whose prefixed key is absent from
\* the table ends in an exception that carries k and reaches the caller, and
\* leaves the mode flag, the icon cache and the table as they were.
C2_UnknownColorRaises ==
    [][(op'.name \in {"str_color", "qcolor"}
          /\ (ModePrefix \o op'.arg) \notin DOMAIN colors)
       => /\ ret'.kind = "raise"
          /\ \E i \in 1..Len(ret'.val) : ret'.val[i] = op'.arg
          /\ UNCHANGED <<night_mode, _icon_cache, colors>>]_vars

\* C2 witness: in day mode, qcolor of a name only the night table defines
\* has raised
C2_Witness ==
    /\ op.name = "qcolor"
    /\ op.arg = "link"
    /\ ~night_mode
    /\ ret.kind = "raise"
    /\ "night-link" \in DOMAIN colors
    /\ "day-link" \notin DOMAIN colors

IsIconCall(o) == o.name = "icon_from_resources"

\* C3: of two consecutive calls icon_from_resources(p) with the mode flag
\* unchanged, the second returns the handle the first returned, loads no
\* icon and leaves the cache as it was.
C3_IconLookupIdempotent ==
    [][(IsIconCall(op) /\ IsIconCall(op') /\ op'.arg = op.arg
          /\ night_mode' = night_mode)
       => /\ ret' = ret
          /\ calls' = <<>>
          /\ _icon_cache' = _icon_cache]_vars

\* C3 witness: a lookup was answered from the cache
C3_Witness ==
    /\ IsIconCall(op)
    /\ calls = <<>>
    /\ op.arg \in DOMAIN _icon_cache
    /\ ret.val = _icon_cache[op.arg]

PlatformTag ==
    CASE isWin -> "isWin"
      [] ~isWin /\ isMac -> "isMac"
      [] ~isWin /\ ~isMac -> "isLin"

\* C4: body_class() returns the platform tag (isWin on Windows, isMac on Mac
\* when not Windows, isLin otherwise), followed by " nightMode" exactly when
\* night mode is on, and nothing else.
C4_BodyClass ==
    op.name = "body_class" =>
        /\ ret.kind = "return"
        /\ ret.val = IF night_mode THEN PlatformTag \o " nightMode"
                     ELSE PlatformTag

\* C4 witness: body_class() was called on a Mac in day mode
C4_Witness ==
    /\ op.name = "body_class"
    /\ isMac
    /\ ~night_mode
    /\ ret.val = "isMac"

DigitChars == <<"0", "1", "2", "3", "4", "5", "6", "7", "8", "9">>

\* the decimal numeral of a number below 100
Numeral(n) ==
    (IF n >= 10 THEN DigitChars[(n \div 10) + 1] ELSE "")
        \o DigitChars[(n % 10) + 1]

\* C5: body_classes_for_card_ord(n) returns "card card<n+1> " followed by
\* what body_class() returns in the same state; for n = 2 in night mode on
\* Linux that is "card card3 isLin nightMode".
C5_BodyClassesForCardOrd ==
    op.name = "body_classes_for_card_ord" =>
        /\ ret.kind = "return"
        /\ ret.val = (("card card" \o Numeral(op.arg + 1)) \o " ") \o body_class
        /\ (op.arg = 2 /\ night_mode /\ ~isWin /\ ~isMac)
           => ret.val = "card card3 isLin nightMode"

\* C5 witness: the call of the spec's example
C5_Witness ==
    /\ op.name = "body_classes_for_card_ord"
    /\ op.arg = 2
    /\ night_mode /\ ~isWin /\ ~isMac
    /\ ret.val = "card card3 isLin nightMode"

\* the positions in the last call's record of the calls of one function
CallsOf(fn) == {i \in 1..Len(calls) : calls[i].fn = fn}

\* the stylesheet fragments that apply in the current state, concatenated
ExpectedBuf ==
    (IF isWin /\ release = "10" /\ ~night_mode
     THEN "\nQMenuBar {\n  border-bottom: 1px solid #aaa;\n  background: white;\n}\n\nQTreeWidget {\n  background: #eee;\n}\n            "
     ELSE "")
    \o
    (IF night_mode
     THEN "\nQToolTip {\n  border: 0;\n}\n\nQGroupBox {\n  padding-top: 0px;\n}              \n            "
     ELSE "")

\* C6: every call of _apply_style, and every call of apply_style that does
\* not raise, invokes style_did_init exactly once, with the buffer holding
\* every fragment that applies; it calls setStyleSheet exactly once, after
\* the hook, with the hook's return value, which is then the application's
\* stylesheet.
C6_HookOnceThenInstall ==
    (op.name \in {"_apply_style", "apply_style"} /\ ret.kind = "return") =>
        /\ Cardinality(CallsOf("style_did_init")) = 1
        /\ Cardinality(CallsOf("setStyleSheet")) = 1
        /\ \A h \in CallsOf("style_did_init") : \A i \in CallsOf("setStyleSheet") :
              /\ h < i
              /\ calls[h].arg = ExpectedBuf
              /\ calls[i].arg = style_did_init(op.arg, calls[h].arg)
              /\ appStyleSheet = calls[i].arg

\* C6 witness: apply_style ran in night mode with an appending filter
C6_Witness ==
    /\ op.name = "apply_style"
    /\ op.arg = "append"
    /\ ret.kind = "return"
    /\ night_mode
    /\ appStyleSheet = ExpectedBuf \o "QWidget { font-size: 12px; }"

\* C7: in day mode _apply_palette, alone or as the first step of
\* apply_style, sets no style, installs no palette and reads no colour: the
\* application's style and palette are afterwards what they were.
C7_DayPaletteNoOp ==
    [][(~night_mode /\ op'.name \in {"_apply_palette", "apply_style"})
       => /\ appStyle' = appStyle
          /\ appPalette' = appPalette
          /\ \A i \in 1..Len(calls') :
                calls'[i].fn \notin {"setStyle", "setPalette", "colors.get"}]_vars

\* C7 witness: _apply_palette ran in day mode on an application whose style
\* and palette are the toolkit's defaults
C7_Witness ==
    /\ op.name = "_apply_palette"
    /\ ~night_mode
    /\ ret.kind = "return"
    /\ appStyle = "toolkit-default"
    /\ appPalette = QPalette

NightKeysPresent ==
    \A i \in 1..Len(PaletteKeys) : ("night-" \o PaletteKeys[i]) \in DOMAIN colors

TableColor(k) == [name |-> colors["night-" \o k], alpha |-> 255]

\* the roles of the installed palette other than Highlight
PaletteRolesFromTable ==
    /\ \A g \in {"Active", "Inactive"} :
          /\ \A r \in {"WindowText", "ToolTipText", "Text", "ButtonText"} :
                appPalette[<<g, r>>] = TableColor("text-fg")
          /\ appPalette[<<g, "HighlightedText">>] = TableColor("highlight-fg")
    /\ \A r \in {"WindowText", "ToolTipText"} :
          appPalette[<<"Disabled", r>>] = TableColor("text-fg")
    /\ \A r \in {"Text", "ButtonText", "HighlightedText"} :
          appPalette[<<"Disabled", r>>] = TableColor("disabled")
    /\ \A g \in ColorGroups :
          /\ \A r \in {"Window", "AlternateBase", "Button"} :
                appPalette[<<g, r>>] = TableColor("window-bg")
          /\ \A r \in {"Base", "ToolTipBase"} :
                appPalette[<<g, r>>] = TableColor("frame-bg")
          /\ appPalette[<<g, "Link">>] = TableColor("link")
          /\ appPalette[<<g, "BrightText">>] = [name |-> "#ff0000", alpha |-> 255]

NightPaletteApplied ==
    /\ op.name \in {"_apply_palette", "apply_style"}
    /\ night_mode
    /\ NightKeysPresent

\* C8 as stated: after night-mode palette application every role, Highlight
\* included, has exactly the table's colour.
C8_Original ==
    NightPaletteApplied =>
        /\ PaletteRolesFromTable
        /\ \A g \in ColorGroups :
              appPalette[<<g, "Highlight">>] = TableColor("highlight-bg")

\* C8: after night-mode palette application with every night-* key in the
\* table, the installed palette has the roles of the claim at the table's
\* colours and BrightText at a fixed red, except that Highlight is the
\* table's highlight-bg with its alpha set to 64.
C8_NightPalette ==
    NightPaletteApplied =>
        /\ ret.kind = "return"
        /\ CallsOf("setPalette") # {}
        /\ PaletteRolesFromTable
        /\ \A g \in ColorGroups :
              appPalette[<<g, "Highlight">>] =
                  [name |-> colors["night-highlight-bg"], alpha |-> 64]

\* C8 witness: _apply_palette installed a palette in night mode
C8_Witness ==
    /\ op.name = "_apply_palette"
    /\ night_mode
    /\ NightKeysPresent
    /\ ret.kind = "return"
    /\ appPalette[<<"Active", "Highlight">>].alpha = 64
    /\ appStyle = "fusion"

\* C9: a freshly created theme manager, before any caller has set the mode
\* flag, is in day mode.
C9_DayModeIsDefault ==
    op.name = "ThemeManager" => night_mode = FALSE

====
